---- MODULE Spec2Model ----
(***************************************************************************)
(* Model of the FFCV operators of domainbed/datasets/ffcv_transforms.py    *)
(* (ColorJitter, RandomGrayscale, ResizedCrop) and of the writer script    *)
(* ffcv_writers.py.                                                        *)
(*                                                                         *)
(* Floats are modelled on a fixed-point grid: the integer n stands for the *)
(* float n / (2 * Res), so Half stands for 0.5 and One for 1.0.            *)
(***************************************************************************)
EXTENDS Integers, Sequences, FiniteSets

\* grid steps per 0.5
Res == 2
\* images per batch handed to the color_jitter kernel
NumImages == 1
\* largest image side and largest ResizedCrop size
MaxDim == 2
\* most environments of a dataset
MaxEnvs == 2

Half == Res
One == 2 * Res

\* Python's None, for the range fields and for objects not yet made
None == <<>>

Max(a, b) == IF a >= b THEN a ELSE b
Min(a, b) == IF a <= b THEN a ELSE b

(***************************************************************************)
(* Python values passed to ColorJitter.__init__.  kind is the value's      *)
(* type; items holds the number itself (kind "num") or the elements of the *)
(* tuple / list.                                                           *)
(***************************************************************************)
Num(n) == [kind |-> "num", items |-> <<n>>]
Tuple(s) == [kind |-> "tuple", items |-> s]
List(s) == [kind |-> "list", items |-> s]
Str == [kind |-> "str", items |-> <<>>]

\* isinstance(value, numbers.Number)
IsNumber(value) == value.kind = "num"
\* isinstance(value, (tuple, list)) and len(value) == 2
IsPair(value) == value.kind \in {"tuple", "list"} /\ Len(value.items) = 2

\* bound=(0, float("inf")): inf marks an infinite upper bound
DefaultBound == [lo |-> 0, hi |-> 0, inf |-> TRUE]
\* bound=(-0.5, 0.5)
HueBound == [lo |-> -Half, hi |-> Half, inf |-> FALSE]
\* center=1 (default) and center=0 (hue)
DefaultCenter == One
HueCenter == 0

\* bound[0] <= value[0] <= value[1] <= bound[1]
InBound(bound, v) ==
    /\ bound.lo <= v[1]
    /\ v[1] <= v[2]
    /\ (bound.inf \/ v[2] <= bound.hi)

\* if value[0] == value[1] == center: value = None
Normalise(v, center) == IF v[1] = v[2] /\ v[2] = center THEN None ELSE v

\* _check_input without the clip of the lower end at zero
CheckInputNoClip(value, center, bound, clip_first_on_zero) ==
    IF IsNumber(value)
    THEN LET x == value.items[1]
         IN IF x < 0
            THEN [exc |-> "ValueError", value |-> None]
            ELSE [exc |-> "", value |-> Normalise(<<center - x, center + x>>, center)]
    ELSE IF IsPair(value)
    THEN IF ~InBound(bound, value.items)
         THEN [exc |-> "ValueError", value |-> None]
         ELSE [exc |-> "", value |-> Normalise(value.items, center)]
    ELSE [exc |-> "TypeError", value |-> None]

\* _check_input without the test for a negative number
CheckInputNoSign(value, center, bound, clip_first_on_zero) ==
    IF IsNumber(value)
    THEN LET x == value.items[1]
             lo == IF clip_first_on_zero THEN Max(center - x, 0) ELSE center - x
         IN [exc |-> "", value |-> Normalise(<<lo, center + x>>, center)]
    ELSE IF IsPair(value)
    THEN IF ~InBound(bound, value.items)
         THEN [exc |-> "ValueError", value |-> None]
         ELSE [exc |-> "", value |-> Normalise(value.items, center)]
    ELSE [exc |-> "TypeError", value |-> None]

\* ColorJitter._check_input: exc is the exception raised ("" for none),
\* value the range returned
CheckInput(value, center, bound, clip_first_on_zero) ==
    IF IsNumber(value)
    THEN LET x == value.items[1]
             lo == IF clip_first_on_zero THEN Max(center - x, 0) ELSE center - x
         IN IF x < 0
            THEN [exc |-> "ValueError", value |-> None]
            ELSE [exc |-> "", value |-> Normalise(<<lo, center + x>>, center)]
    ELSE IF IsPair(value)
    THEN IF ~InBound(bound, value.items)
         THEN [exc |-> "ValueError", value |-> None]
         ELSE [exc |-> "", value |-> Normalise(value.items, center)]
    ELSE [exc |-> "TypeError", value |-> None]

(***************************************************************************)
(* Arguments the constructor is tried with.                                *)
(***************************************************************************)
BCSArgs ==
    {Num(-1), Num(0), Num(1), Num(One + 1),
     Tuple(<<Half, One>>), List(<<One, One>>), Tuple(<<One, Half>>),
     List(<<-1, One>>), Tuple(<<0, One, One + 1>>), Str}
HueArgs ==
    {Num(-1), Num(0), Num(1), Num(Half), Num(Half + 1),
     Tuple(<<-Half, Half>>), List(<<0, 0>>), Tuple(<<-(Half + 1), 0>>),
     List(<<0, Half + 1>>), Tuple(<<1, 0>>), List(<<0>>), Str}

\* np.random.permutation(4): the orders of the four jitter functions
Permutation4 ==
    {p \in [1 .. 4 -> 0 .. 3] : \A a, b \in 1 .. 4 : a # b => p[a] # p[b]}

\* np.random.uniform(low, high): the grid points of the range
Uniform(low, high) == low .. high

VARIABLES
    args,        \* <<brightness, contrast, saturation, hue>> given to __init__
    status,      \* "none", "ok", or the exception __init__ raised
    brightness, contrast, saturation, hue,   \* the ColorJitter's fields
    closure,     \* the four ranges captured by generate_code, or None
    kpc,         \* color_jitter: "idle", "loop" (between images), "body"
    i,           \* color_jitter: image index
    fn_idx,      \* color_jitter: np.random.permutation(4), or None
    fn_id,       \* color_jitter: position in fn_idx
    draw,        \* the last np.random.uniform draw: <<function, factor>>
    code,        \* the callable last returned by a generate_code:
                 \* <<name, attributes set to True>>, or None
    size,        \* ResizedCrop.size
    pstate,      \* the pipeline's current State
    called,      \* the last declare_state_and_memory call: <<operator, previous_state>>
    decl,        \* what that call returned: <<state, allocation>>, or the exception
    wargs,       \* write: args.dataset
    dataset,     \* write: <<environments, datasets>>, or None
    wpc,         \* write: "start", "loop", "done", "KeyError"
    k,           \* write: containers written so far
    written      \* write: the containers written, in order

jvars == <<args, status, brightness, contrast, saturation, hue>>
kvars == <<closure, kpc, i, fn_idx, fn_id, draw>>
ovars == <<size, pstate, called, decl>>
wvars == <<wargs, dataset, wpc, k, written>>

vars == <<jvars, kvars, code, ovars, wvars>>

(***************************************************************************)
(* ColorJitter                                                             *)
(***************************************************************************)

\* ColorJitter.__init__: the four checks run in order, the first exception
\* leaves no object
InitResult(b, c, s, h) ==
    LET rb == CheckInput(b, DefaultCenter, DefaultBound, TRUE)
        rc == CheckInput(c, DefaultCenter, DefaultBound, TRUE)
        rs == CheckInput(s, DefaultCenter, DefaultBound, TRUE)
        rh == CheckInput(h, HueCenter, HueBound, FALSE)
        exc == IF rb.exc # "" THEN rb.exc
               ELSE IF rc.exc # "" THEN rc.exc
               ELSE IF rs.exc # "" THEN rs.exc
               ELSE rh.exc
    IN [status |-> IF exc = "" THEN "ok" ELSE exc,
        brightness |-> IF exc = "" THEN rb.value ELSE None,
        contrast |-> IF exc = "" THEN rc.value ELSE None,
        saturation |-> IF exc = "" THEN rs.value ELSE None,
        hue |-> IF exc = "" THEN rh.value ELSE None]

\* the state ColorJitter(b, c, s, h) leaves
Constructed(b, c, s, h, a, st, fb, fc, fs, fh) ==
    LET r == InitResult(b, c, s, h)
    IN /\ a = <<b, c, s, h>>
       /\ st = r.status
       /\ fb = r.brightness
       /\ fc = r.contrast
       /\ fs = r.saturation
       /\ fh = r.hue

JitterInit ==
    /\ args = None
    /\ status = "none"
    /\ brightness = None /\ contrast = None /\ saturation = None /\ hue = None

KernelInit ==
    /\ closure = None
    /\ kpc = "idle"
    /\ i = 0
    /\ fn_idx = None
    /\ fn_id = 0
    /\ draw = None

OpsInit ==
    /\ size = 1
    /\ pstate = [jit_mode |-> TRUE, shape |-> <<1, 1, 3>>, dtype |-> "uint8"]
    /\ called = None
    /\ decl = None

WriteInit ==
    /\ wargs = ""
    /\ dataset = None
    /\ wpc = "start"
    /\ k = 0
    /\ written = <<>>

Init == JitterInit /\ KernelInit /\ code = None /\ OpsInit /\ WriteInit

\* the constructor runs once, on any arguments
New ==
    /\ status = "none"
    /\ \E b \in BCSArgs, c \in BCSArgs, s \in BCSArgs, h \in HueArgs :
          Constructed(b, c, s, h, args', status', brightness', contrast', saturation', hue')
    /\ UNCHANGED <<kvars, code, ovars, wvars>>

\* the callable ColorJitter.generate_code returns
JitterCode == <<"color_jitter", {"is_parallel"}>>

\* ColorJitter.generate_code: captures the four ranges and returns
\* color_jitter with is_parallel = True
JitterGenerateCode ==
    /\ status = "ok"
    /\ closure = None
    /\ closure' = <<brightness, contrast, saturation, hue>>
    /\ code' = JitterCode
    /\ UNCHANGED <<jvars, kpc, i, fn_idx, fn_id, draw, ovars, wvars>>

\* color_jitter(images): the call starts the loop over the batch
Call ==
    /\ closure # None
    /\ kpc = "idle"
    /\ kpc' = "loop"
    /\ i' = 0
    /\ draw' = None
    /\ UNCHANGED <<jvars, closure, fn_idx, fn_id, code, ovars, wvars>>

\* for i in my_range(images.shape[0]): fn_idx = np.random.permutation(4)
NextImage ==
    /\ kpc = "loop"
    /\ i < NumImages
    /\ \E p \in Permutation4 : fn_idx' = p
    /\ fn_id' = 0
    /\ kpc' = "body"
    /\ UNCHANGED <<jvars, closure, i, draw, code, ovars, wvars>>

\* one round of the loop over fn_idx whose branch n applies: the factor is
\* drawn from the captured range n + 1
Jitter(n) ==
    /\ kpc = "body"
    /\ fn_id < 4
    /\ fn_idx[fn_id + 1] = n
    /\ closure[n + 1] # None
    /\ \E f \in Uniform(closure[n + 1][1], closure[n + 1][2]) : draw' = <<n, f>>
    /\ fn_id' = fn_id + 1
    /\ UNCHANGED <<jvars, closure, kpc, i, fn_idx, code, ovars, wvars>>

Brightness == Jitter(0)
Contrast == Jitter(1)
Saturation == Jitter(2)
Hue == Jitter(3)

\* a round whose function is switched off: no branch is taken
NoBranch ==
    /\ kpc = "body"
    /\ fn_id < 4
    /\ closure[fn_idx[fn_id + 1] + 1] = None
    /\ fn_id' = fn_id + 1
    /\ UNCHANGED <<jvars, closure, kpc, i, fn_idx, draw, code, ovars, wvars>>

\* the end of the loop over fn_idx: on to the next image
EndImage ==
    /\ kpc = "body"
    /\ fn_id = 4
    /\ i' = i + 1
    /\ fn_idx' = None
    /\ fn_id' = 0
    /\ kpc' = "loop"
    /\ UNCHANGED <<jvars, closure, draw, code, ovars, wvars>>

\* return images
Return ==
    /\ kpc = "loop"
    /\ i = NumImages
    /\ kpc' = "idle"
    /\ UNCHANGED <<jvars, closure, i, fn_idx, fn_id, draw, code, ovars, wvars>>

Next ==
    \/ New
    \/ JitterGenerateCode
    \/ Call
    \/ NextImage
    \/ Brightness
    \/ Contrast
    \/ Saturation
    \/ Hue
    \/ NoBranch
    \/ EndImage
    \/ Return

Spec == Init /\ [][Next]_vars

(***************************************************************************)
(* The operator interface: declare_state_and_memory and generate_code of   *)
(* the three operators, called by a pipeline that threads its State        *)
(* through them.                                                           *)
(***************************************************************************)

DTypes == {"uint8", "float32"}
Shapes == {<<h, w, 3>> : h \in 1 .. MaxDim, w \in 1 .. MaxDim}
\* the State dataclass and AllocationQuery of the host framework
States == [jit_mode : BOOLEAN, shape : Shapes, dtype : DTypes]
Allocations == [shape : Shapes, dtype : DTypes]

\* replace(previous_state, jit_mode=True),
\* AllocationQuery(shape=previous_state.shape, dtype=previous_state.dtype)
JitterDeclared(previous_state) ==
    <<[previous_state EXCEPT !.jit_mode = TRUE],
      [shape |-> previous_state.shape, dtype |-> previous_state.dtype]>>

GrayscaleDeclared(previous_state) ==
    <<[previous_state EXCEPT !.jit_mode = TRUE],
      [shape |-> previous_state.shape, dtype |-> previous_state.dtype]>>

\* assert previous_state.jit_mode
\* replace(previous_state, shape=(size, size, 3)),
\* AllocationQuery((size, size, 3), dtype=np.dtype('uint8'))
CropDeclared(sz, previous_state) ==
    IF ~previous_state.jit_mode
    THEN <<"AssertionError">>
    ELSE <<[previous_state EXCEPT !.shape = <<sz, sz, 3>>],
           [shape |-> <<sz, sz, 3>>, dtype |-> "uint8"]>>

Raised(r) == Len(r) = 1

\* rgb_to_grayscale returned without is_parallel
GrayscaleCodeNoAttr == <<"rgb_to_grayscale", {}>>
\* the callable RandomGrayscale.generate_code returns
GrayscaleCode == <<"rgb_to_grayscale", {"is_parallel"}>>
\* the callable ResizedCrop.generate_code returns: no attribute is set
CropCode == <<"resized_crop", {}>>

\* the three operators as the pipeline holds them: a ColorJitter, a
\* RandomGrayscale and a ResizedCrop(size), before a State out of a decoder
PipelineInit ==
    /\ \E x \in {Num(0), Num(1)} :
          Constructed(x, x, x, x, args, status, brightness, contrast, saturation, hue)
    /\ size \in 1 .. MaxDim
    /\ pstate \in States
    /\ called = None
    /\ decl = None

\* the pipeline passes on the state an operator returned; an exception ends it
Declare(op, result) ==
    /\ decl = None \/ ~Raised(decl)
    /\ called' = <<op, pstate>>
    /\ decl' = result
    /\ pstate' = IF Raised(result) THEN pstate ELSE result[1]
    /\ UNCHANGED <<jvars, kvars, code, size, wvars>>

JitterDeclare == Declare("ColorJitter", JitterDeclared(pstate))
GrayscaleDeclare == Declare("RandomGrayscale", GrayscaleDeclared(pstate))
CropDeclare == Declare("ResizedCrop", CropDeclared(size, pstate))

GrayscaleGenerateCode ==
    /\ code' = GrayscaleCode
    /\ UNCHANGED <<jvars, kvars, ovars, wvars>>

CropGenerateCode ==
    /\ code' = CropCode
    /\ UNCHANGED <<jvars, kvars, ovars, wvars>>

OpsNext ==
    \/ JitterDeclare
    \/ GrayscaleDeclare
    \/ CropDeclare
    \/ JitterGenerateCode
    \/ GrayscaleGenerateCode
    \/ CropGenerateCode

InitOps == PipelineInit /\ KernelInit /\ code = None /\ WriteInit

SpecOps == InitOps /\ [][OpsNext]_vars

(***************************************************************************)
(* ffcv_writers.write                                                      *)
(***************************************************************************)

\* the names vars(datasets) holds, and one it does not
DatasetNames == {"PACS", "VLCS"}
ArgNames == DatasetNames \cup {"Unknown"}
EnvNames == {"e0", "e1", "e2"}
Roots == {"r0", "r1"}

\* the dataset objects of domainbed.datasets: one dataset per environment,
\* each with its root; id tells the dataset objects apart
Datasets ==
    UNION {{<<envs, [j \in 1 .. n |-> [root |-> roots[j], id |-> j]]>> :
               envs \in [1 .. n -> EnvNames], roots \in [1 .. n -> Roots]} :
           n \in 0 .. MaxEnvs}

\* zip(a, b): as long as the shorter
Zip(a, b) == [j \in 1 .. Min(Len(a), Len(b)) |-> <<a[j], b[j]>>]

\* a path that leaves out the environment's name
BetonPathInRoot(root, env) == <<root, ".beton">>
\* Path(ds.root)/f'{env}.beton'
BetonPath(root, env) == <<root, env \o ".beton">>

\* DatasetWriter(path, {'image': RGBImageField(), 'label': IntField()})
\* .from_indexed_dataset(ds)
Container(path, ds) ==
    [path |-> path,
     fields |-> [image |-> "RGBImageField", label |-> "IntField"],
     source |-> ds]

WritePrepare ==
    /\ wargs \in ArgNames
    /\ dataset = None
    /\ wpc = "start"
    /\ k = 0
    /\ written = <<>>

\* dataset = vars(datasets)[args.dataset](args.data_dir)
Load ==
    /\ wpc = "start"
    /\ IF wargs \in DatasetNames
       THEN /\ dataset' \in Datasets
            /\ wpc' = "loop"
       ELSE /\ dataset' = None
            /\ wpc' = "KeyError"
    /\ UNCHANGED <<jvars, kvars, code, ovars, wargs, k, written>>

\* one round of for env, ds in zip(dataset.environments, dataset.datasets)
WriteEnv ==
    /\ wpc = "loop"
    /\ k < Len(Zip(dataset[1], dataset[2]))
    /\ LET env == Zip(dataset[1], dataset[2])[k + 1][1]
           ds == Zip(dataset[1], dataset[2])[k + 1][2]
       IN written' = Append(written, Container(BetonPath(ds.root, env), ds))
    /\ k' = k + 1
    /\ UNCHANGED <<jvars, kvars, code, ovars, wargs, dataset, wpc>>

\* the loop is exhausted: write returns
WriteReturn ==
    /\ wpc = "loop"
    /\ k = Len(Zip(dataset[1], dataset[2]))
    /\ wpc' = "done"
    /\ UNCHANGED <<jvars, kvars, code, ovars, wargs, dataset, k, written>>

WriteNext ==
    \/ Load
    \/ WriteEnv
    \/ WriteReturn

InitWrite == JitterInit /\ KernelInit /\ code = None /\ OpsInit /\ WritePrepare

SpecWrite == InitWrite /\ [][WriteNext]_vars

(***************************************************************************)
(* Properties                                                              *)
(***************************************************************************)

\* the interval the docstring gives for argument n (0 brightness, 1 contrast,
\* 2 saturation, 3 hue) of the constructor call
Documented(n) ==
    LET a == args[n + 1]
    IN IF IsNumber(a)
       THEN IF n = 3
            THEN <<-a.items[1], a.items[1]>>
            ELSE <<Max(0, One - a.items[1]), One + a.items[1]>>
       ELSE a.items

\* C1: every factor the color_jitter kernel draws lies in the documented
\* interval of its argument: [max(0, 1 - x), 1 + x] for brightness, contrast
\* and saturation given as a number x, [-h, h] for hue given as a number h,
\* [min, max] for an argument given as a pair.
C1_FactorInDocumentedInterval ==
    draw # None =>
        /\ Documented(draw[1])[1] <= draw[2]
        /\ draw[2] <= Documented(draw[1])[2]

\* a brightness above 1 was given and the kernel drew the clipped lower end;
\* the hue was given as a pair
C1_Witness ==
    /\ draw = <<0, 0>>
    /\ args[1] = Num(One + 1)
    /\ IsPair(args[4])

\* C2: every ColorJitter that constructs successfully has a hue range that
\* is None or contained in [-0.5, 0.5].
C2_HueRangeWithinHalf ==
    status = "ok" => hue = None \/ (-Half <= hue[1] /\ hue[2] <= Half)

\* the class the claim gives an argument: "" is accepted
Class(a, lo, hi, unbounded) ==
    IF a.kind = "num"
    THEN IF a.items[1] < 0 THEN "ValueError" ELSE ""
    ELSE IF a.kind \in {"tuple", "list"} /\ Len(a.items) = 2
    THEN IF lo <= a.items[1] /\ a.items[1] <= a.items[2] /\ (unbounded \/ a.items[2] <= hi)
         THEN ""
         ELSE "ValueError"
    ELSE "TypeError"

Classes ==
    <<Class(args[1], 0, 0, TRUE), Class(args[2], 0, 0, TRUE),
      Class(args[3], 0, 0, TRUE), Class(args[4], -Half, Half, FALSE)>>

C4_OperatorInterface ==
    /\ code # None =>
          ("is_parallel" \in code[2]) <=> (code[1] \in {"color_jitter", "rgb_to_grayscale"})
    /\ called # None =>
          IF called[1] = "ResizedCrop" /\ ~called[2].jit_mode
          THEN Raised(decl)
          ELSE Len(decl) = 2 /\ decl[1] \in States /\ decl[2] \in Allocations

\* ResizedCrop was asked to declare on a state whose jit_mode is off, after
\* ColorJitter had declared on it, and ResizedCrop's callable was generated
C4_Witness ==
    /\ called # None
    /\ called[1] = "ResizedCrop"
    /\ ~called[2].jit_mode
    /\ Raised(decl)
    /\ code = <<"resized_crop", {}>>

\* C4 (as claimed): every declare_state_and_memory returns a state and an
\* allocation request, and every generated callable carries is_parallel.
C4_AllParallel ==
    /\ code # None => "is_parallel" \in code[2]
    /\ called # None => Len(decl) = 2

====
